---- MODULE Spec2Model ----
(***************************************************************************)
(* Order / payment / key-issuance state machine of the web marketplace.    *)
(*                                                                         *)
(* Every HTTP handler is a sequence of awaited database or gateway calls.  *)
(* One action of the model is one awaited call together with the local     *)
(* computation that follows it up to the next await, so that handlers of   *)
(* different requests interleave exactly at the awaits, as they do in the  *)
(* Node.js runtime and across server instances.                            *)
(***************************************************************************)
EXTENDS Integers, Naturals, Sequences, FiniteSets, Bags, TLC

\* ------------------------------------------------------------------ bounds
MaxOrders == 1      \* orders that may be created
MaxProcs == 2       \* requests in flight at the same time
MaxQty == 2         \* largest purchased quantity
NumCodes == 3       \* size of the key-code space generateKey draws from
MaxStock == 2       \* largest initial product stock
MaxTime == 3        \* last day the clock reaches
MaxVerifies == 3    \* keys/verify requests served
PollWindow == 5     \* polling intervals in the page's polling window
MaxStarts == 2      \* calls of startPolling on one page
MaxCalls == 2       \* interval callbacks awaiting a response at the same time
MaxClock == 7       \* last polling interval the browser clock reaches

VARIABLES
    product,    \* the live Product row: type and stock
    orders,     \* Order rows, by id
    items,      \* the OrderItem row of each order
    keys,       \* Key rows (the code column is unique)
    charges,    \* charges held by the payment gateway, id = index
    inflight,   \* bag of the requests being handled, with their locals
    now,        \* the server clock, in days
    keyLogs,    \* KeyLog rows, in the order of their creation
    page        \* the payment page in the buyer's browser: its timers and polls

vars == <<product, orders, items, keys, charges, inflight, now, keyLogs, page>>

OrderIds == 1..MaxOrders
Codes == 1..NumCodes
NULL == 0

\* the signed-in users; Owner places the orders
Users == {1, 2}
Owner == 1

ProductTypes == {"key", "script", "other"}
Statuses == {"pending", "paid", "completed", "cancelled"}

\* locals of a request that has not read anything yet
NoItem == [exists |-> FALSE, ptype |-> "other", quantity |-> 0, code |-> NULL,
           expireDays |-> <<>>]
NoOrder == [exists |-> FALSE, used |-> FALSE, userId |-> NULL, status |-> "pending",
            omiseChargeId |-> NULL, qrCodeUrl |-> FALSE, totalAmount |-> 0]

\* the updateData of keys/verify before anything is put into it
NoUpd == [first |-> FALSE, activateDate |-> NULL, expireDate |-> NULL]

\* locals of a request: handler, position, the ids it works on, the webhook
\* payload (paid, status, src), the order item it iterates over and the
\* keysToGenerate list; a local is reset once the handler no longer reads it
Idle == [h |-> "none", pc |-> "none", user |-> NULL, oid |-> NULL, cid |-> NULL,
         paid |-> FALSE, status |-> "none", src |-> "none",
         item |-> NoItem, i |-> 0, gen |-> <<>>, amt |-> 0,
         key |-> NULL, hwid |-> NULL, upd |-> NoUpd, log |-> "none", sig |-> <<>>]

\* replace request r of the bag by r2
Step(r, r2) == inflight' = (inflight (-) SetToBag({r})) (+) SetToBag({r2})
\* request r returns its response
Finish(r) == inflight' = inflight (-) SetToBag({r})
Begin(r) == /\ BagCardinality(inflight) < MaxProcs
            /\ inflight' = inflight (+) SetToBag({r})
Running == BagToSet(inflight)

\* ------------------------------------------------------------- store reads
OrderByCharge(c) ==
    IF \E o \in DOMAIN orders : orders[o].exists /\ orders[o].omiseChargeId = c
    THEN CHOOSE o \in DOMAIN orders : orders[o].exists /\ orders[o].omiseChargeId = c
    ELSE NULL

OrderById(o) == IF o \in DOMAIN orders /\ orders[o].exists THEN o ELSE NULL

KeysOfItem(o) == {k \in keys : k.orderItemId = o}
KeyExists(c) == \E k \in keys : k.key = c

\* setFullYear(getFullYear() + 100), in days (24 or 25 leap days, by the date)
HundredYears == 100 * 365 + 24

\* ------------------------------------------------------------- key codec
\* An expiry policy is the string of Product.expireDays, kept as its
\* sequence of characters; NoPolicy stands for null.
NoPolicy == <<"null">>

Never == <<"N", "e", "v", "e", "r">>

Policy(str) ==
    CASE str = "" -> <<>>
      [] str = "Never" -> Never
      [] str = "0D" -> <<"0", "D">>
      [] str = "1D" -> <<"1", "D">>
      [] str = "2D" -> <<"2", "D">>
      [] str = "D1" -> <<"D", "1">>
      [] str = "-1D" -> <<"-", "1", "D">>
      [] str = "1D2" -> <<"1", "D", "2">>
      [] str = "week" -> <<"w", "e", "e", "k">>

Digits == {"0", "1", "2", "3", "4", "5", "6", "7", "8", "9"}
DigitVal(ch) == CHOOSE n \in 0..9 : ch = <<"0", "1", "2", "3", "4", "5", "6", "7", "8", "9">>[n + 1]

\* numbers that may be NaN, and results that may be a thrown Error
NaN == [nan |-> TRUE, val |-> 0]
Num(n) == [nan |-> FALSE, val |-> n]
Throw == [threw |-> TRUE, date |-> 0]
Date(d) == [threw |-> FALSE, date |-> d]

\* String.prototype.replace('D', ''): the first 'D' is removed
RECURSIVE replaceD(_)
replaceD(str) ==
    IF str = <<>> THEN <<>>
    ELSE IF Head(str) = "D" THEN Tail(str)
    ELSE <<Head(str)>> \o replaceD(Tail(str))

\* the value of the longest prefix of digits, read left to right
RECURSIVE digitsValue(_, _)
digitsValue(str, acc) ==
    IF str = <<>> \/ Head(str) \notin Digits THEN acc
    ELSE digitsValue(Tail(str), 10 * acc + DigitVal(Head(str)))

\* parseInt: an optional sign, then digits up to the first other character;
\* NaN when there is no digit
parseInt(str) ==
    LET neg == str # <<>> /\ Head(str) = "-"
        body == IF str # <<>> /\ Head(str) \in {"-", "+"} THEN Tail(str) ELSE str
    IN  IF body = <<>> \/ Head(body) \notin Digits THEN NaN
        ELSE IF neg THEN Num(0 - digitsValue(body, 0)) ELSE Num(digitsValue(body, 0))

calculateExpireDate(expireDays, activateDate) ==
    IF expireDays = NoPolicy \/ expireDays = <<>> \/ expireDays = Never
    THEN Date(activateDate + HundredYears)
    ELSE LET days == parseInt(replaceD(expireDays))
         IN  IF days.nan THEN Throw ELSE Date(activateDate + days.val)

\* ------------------------------------------------------- gateway adapter
\* amounts are kept in thousandths of a baht, so that the conversion to
\* satang rounds: Math.round(amount * 100) = floor(amount * 100 + 0.5)
amountInSatang(amount) == (amount + 5) \div 10

MinSatang == 2000
MaxSatang == 15000000

\* a limit check that also rejects the two limits themselves
ChargeRejectedInclusive(amount) ==
    amountInSatang(amount) <= MinSatang \/ amountInSatang(amount) >= MaxSatang

\* the limit check of createPromptpayCharge, before the gateway request
ChargeRejected(amount) ==
    amountInSatang(amount) < MinSatang \/ amountInSatang(amount) > MaxSatang

\* ---------------------------------------------------------- orders/create
Prices == {10000, 20000}

FreshOrder == CHOOSE o \in OrderIds : ~orders[o].used /\ \A p \in OrderIds : ~orders[p].used => o <= p

RECURSIVE Copies(_)
Copies(S) == IF S = {} THEN 0
             ELSE LET r == CHOOSE x \in S : TRUE
                  IN  CopiesIn(r, inflight) + Copies(S \ {r})

\* order-creation requests that have passed validation and not yet inserted
Inserting == Copies({r \in Running : r.pc = "ocInsert"})

\* session, body validation, user and product lookup, then the price, stock
\* and amount checks in the order of the code; a rejected request gets its
\* error response and does nothing else
OC_Start ==
    \E q \in 1..MaxQty :
        /\ LET total == product.price * q
               r == [Idle EXCEPT !.h = "ordersCreate", !.pc = "ocReject", !.user = Owner,
                                 !.item = [exists |-> FALSE, ptype |-> product.ptype,
                                           quantity |-> q, code |-> NULL,
                                           expireDays |-> product.expireDays]]
           IN  IF product.price < 0
               THEN Begin([r EXCEPT !.log = "Invalid product"])
               ELSE IF product.ptype # "key" /\ product.ptype # "script" /\ product.stock < q
               THEN Begin([r EXCEPT !.log = "Insufficient stock"])
               ELSE IF total < 0
               THEN Begin([r EXCEPT !.log = "Invalid order amount"])
               ELSE IF amountInSatang(total) < MinSatang
               THEN Begin([r EXCEPT !.log = "Amount too low"])
               ELSE IF amountInSatang(total) > MaxSatang
               THEN Begin([r EXCEPT !.log = "Amount too high"])
               ELSE /\ Cardinality({o \in OrderIds : ~orders[o].used}) > Inserting
                    /\ Begin([r EXCEPT !.pc = "ocInsert", !.amt = total])
        /\ UNCHANGED <<page, now, keyLogs, product, orders, items, keys, charges>>

\* the error response of orders/create
OC_Reject ==
    \E r \in Running :
        /\ r.pc = "ocReject"
        /\ Finish(r)
        /\ UNCHANGED <<page, now, keyLogs, product, orders, items, keys, charges>>

\* prisma.order.create: a pending order without charge reference
OC_Insert ==
    \E r \in Running :
        /\ r.pc = "ocInsert"
        /\ \E o \in OrderIds : ~orders[o].used
        /\ LET o == FreshOrder IN
           /\ orders' = [orders EXCEPT ![o] = [exists |-> TRUE, used |-> TRUE, userId |-> Owner,
                                               status |-> "pending", omiseChargeId |-> NULL,
                                               qrCodeUrl |-> FALSE, totalAmount |-> r.amt]]
           /\ Step(r, [r EXCEPT !.pc = "ocCharge", !.oid = o])
        /\ UNCHANGED <<page, now, keyLogs, product, items, keys, charges>>

\* createPromptpayCharge: the gateway creates the charge, or the call throws
OC_Charge ==
    \E r \in Running :
        /\ r.pc = "ocCharge"
        /\ \/ /\ ~ChargeRejected(r.amt)
              /\ charges' = Append(charges, [orderId |-> r.oid, amount |-> amountInSatang(r.amt)])
              /\ Step(r, [r EXCEPT !.pc = "ocUpdate", !.cid = Len(charges) + 1])
           \/ /\ UNCHANGED charges
              /\ Step(r, [r EXCEPT !.pc = "ocDelete"])
        /\ UNCHANGED <<page, now, keyLogs, product, orders, items, keys>>

\* compensation after a failed charge: prisma.order.delete
OC_Delete ==
    \E r \in Running :
        /\ r.pc = "ocDelete"
        /\ orders' = [orders EXCEPT ![r.oid].exists = FALSE]
        /\ Step(r, [r EXCEPT !.pc = "ocReject", !.log = "Payment creation failed"])
        /\ UNCHANGED <<page, now, keyLogs, product, items, keys, charges>>

\* prisma.order.update({where: {id}}): the direct, unconditional update
OC_Update ==
    \E r \in Running :
        /\ r.pc = "ocUpdate"
        /\ \/ /\ orders[r.oid].exists
              /\ orders' = [orders EXCEPT ![r.oid].omiseChargeId = r.cid,
                                          ![r.oid].qrCodeUrl = TRUE]
              /\ Step(r, [r EXCEPT !.pc = "ocItem"])
           \/ /\ UNCHANGED orders
              /\ Step(r, [r EXCEPT !.pc = "ocFallbackRead"])
        /\ UNCHANGED <<page, now, keyLogs, product, items, keys, charges>>

\* the update threw: re-read the order and decide
OC_FallbackRead ==
    \E r \in Running :
        /\ r.pc = "ocFallbackRead"
        /\ IF orders[r.oid].exists /\ orders[r.oid].omiseChargeId = NULL
           THEN Step(r, [r EXCEPT !.pc = "ocFallbackWrite"])
           ELSE Step(r, [r EXCEPT !.pc = "ocItem"])
        /\ UNCHANGED <<page, now, keyLogs, product, orders, items, keys, charges>>

\* prisma.order.updateMany({where: {id}}): no condition on omiseChargeId
OC_FallbackWrite ==
    \E r \in Running :
        /\ r.pc = "ocFallbackWrite"
        /\ \/ /\ orders' = [orders EXCEPT ![r.oid] =
                              IF @.exists THEN [@ EXCEPT !.omiseChargeId = r.cid, !.qrCodeUrl = TRUE]
                              ELSE @]
           \/ UNCHANGED orders
        /\ Step(r, [r EXCEPT !.pc = "ocItem"])
        /\ UNCHANGED <<page, now, keyLogs, product, items, keys, charges>>

\* prisma.orderItem.create with the product snapshot
OC_Item ==
    \E r \in Running :
        /\ r.pc = "ocItem"
        /\ items' = [items EXCEPT ![r.oid] = [r.item EXCEPT !.exists = TRUE]]
        /\ Finish(r)
        /\ UNCHANGED <<page, now, keyLogs, product, orders, keys, charges>>

\* -------------------------------------------------------- payments/create
\* the amounts a client may submit for an order, relative to its total
AmountDeltas == {-20, 0, 6}

\* the response of a payments/create request that ends before its write
PC_Response(msg) == [Idle EXCEPT !.h = "paymentsCreate", !.pc = "pcReject", !.log = msg]

\* the response that names a charge: {chargeId, qrCodeUrl, ...}
PC_Answer(o, c) ==
    [Idle EXCEPT !.h = "paymentsCreate", !.pc = "pcReject", !.oid = o, !.cid = c,
                 !.log = "charge"]

\* findUnique of the order: it must exist, be the caller's and be pending;
\* when it has a charge reference already, that one is returned
PC_Start ==
    \E o \in OrderIds, d \in AmountDeltas :
        /\ orders[o].used
        /\ IF ~orders[o].exists THEN Begin(PC_Response("Order not found"))
           ELSE IF orders[o].status # "pending"
           THEN Begin(PC_Response("Order is not pending payment"))
           ELSE IF orders[o].omiseChargeId # NULL
           THEN Begin(PC_Answer(o, orders[o].omiseChargeId))
           ELSE Begin([Idle EXCEPT !.h = "paymentsCreate", !.pc = "pcItems", !.oid = o,
                                   !.amt = orders[o].totalAmount + d])
        /\ UNCHANGED <<page, now, keyLogs, product, orders, items, keys, charges>>

\* the response goes out
PC_Reject ==
    \E r \in Running :
        /\ r.pc = "pcReject"
        /\ Finish(r)
        /\ UNCHANGED <<page, now, keyLogs, product, orders, items, keys, charges>>

\* Math.abs(order.totalAmount - amount) > 0.01
AmountMismatch(total, amount) ==
    (IF total - amount < 0 THEN amount - total ELSE total - amount) > 10

\* orderItem.findMany, then the limit checks and the amount comparison
PC_Items ==
    \E r \in Running :
        /\ r.pc = "pcItems"
        /\ IF ~items[r.oid].exists THEN Step(r, PC_Response("Invalid order"))
           ELSE IF amountInSatang(r.amt) < MinSatang THEN Step(r, PC_Response("Amount too low"))
           ELSE IF amountInSatang(r.amt) > MaxSatang THEN Step(r, PC_Response("Amount too high"))
           ELSE IF AmountMismatch(orders[r.oid].totalAmount, r.amt)
           THEN Step(r, PC_Response("Amount mismatch"))
           ELSE Step(r, [r EXCEPT !.pc = "pcCharge"])
        /\ UNCHANGED <<page, now, keyLogs, product, orders, items, keys, charges>>

\* createPromptpayCharge: the gateway creates the charge, or the call throws
PC_Charge ==
    \E r \in Running :
        /\ r.pc = "pcCharge"
        /\ \/ /\ ~ChargeRejected(r.amt)
              /\ charges' = Append(charges, [orderId |-> r.oid, amount |-> amountInSatang(r.amt)])
              /\ Step(r, [r EXCEPT !.pc = "pcFind", !.cid = Len(charges) + 1])
           \/ /\ UNCHANGED charges
              /\ Step(r, PC_Response("Payment creation failed"))
        /\ UNCHANGED <<page, now, keyLogs, product, orders, items, keys>>

\* findUnique({omiseChargeId: charge.id}): is the new charge already stored?
PC_Find ==
    \E r \in Running :
        /\ r.pc = "pcFind"
        /\ IF OrderByCharge(r.cid) = r.oid
           THEN Step(r, PC_Answer(r.oid, r.cid))
           ELSE IF OrderByCharge(r.cid) # NULL
           THEN Step(r, PC_Response("Payment creation conflict"))
           ELSE Step(r, [r EXCEPT !.pc = "pcWrite"])
        /\ UNCHANGED <<page, now, keyLogs, product, orders, items, keys, charges>>

\* an update by id alone, answered with the request's own charge
PC_WriteUnconditional ==
    \E r \in Running :
        /\ r.pc = "pcWrite"
        /\ orders' = [orders EXCEPT ![r.oid] =
                         IF @.exists
                         THEN [@ EXCEPT !.omiseChargeId = r.cid, !.qrCodeUrl = TRUE]
                         ELSE @]
        /\ Step(r, PC_Answer(r.oid, r.cid))
        /\ UNCHANGED <<page, now, keyLogs, product, items, keys, charges>>

\* updateMany({where: {id, omiseChargeId: null, status: 'pending'}}): with
\* count 1 the response names the request's charge, with count 0 the order
\* is read again
PC_Write ==
    \E r \in Running :
        /\ r.pc = "pcWrite"
        /\ LET o == orders[r.oid]
           IN  IF o.exists /\ o.omiseChargeId = NULL /\ o.status = "pending"
               THEN /\ orders' = [orders EXCEPT ![r.oid] =
                                     [@ EXCEPT !.omiseChargeId = r.cid, !.qrCodeUrl = TRUE]]
                    /\ Step(r, PC_Answer(r.oid, r.cid))
               ELSE /\ UNCHANGED orders
                    /\ Step(r, [r EXCEPT !.pc = "pcReread", !.cid = NULL, !.amt = 0])
        /\ UNCHANGED <<page, now, keyLogs, product, items, keys, charges>>

\* findUnique({where: {id: orderId}}) of the request whose update matched no
\* row: a conflict when the status changed, the stored charge when there
\* is one
PC_Reread ==
    \E r \in Running :
        /\ r.pc = "pcReread"
        /\ LET o == orders[r.oid]
           IN  Step(r, IF ~o.exists THEN PC_Response("Order not found")
                       ELSE IF o.status # "pending" THEN PC_Response("Order state conflict")
                       ELSE IF o.omiseChargeId # NULL THEN PC_Answer(r.oid, o.omiseChargeId)
                       ELSE PC_Response("Payment creation failed"))
        /\ UNCHANGED <<page, now, keyLogs, product, orders, items, keys, charges>>

\* ------------------------------------------------------- webhook entry
\* Strings are sequences of tokens; the token "sha256=" is the prefix of the
\* header format, and two tokens stand for the hex digest.
\* the HMAC-SHA256 hex digest of the raw body under OMISE_SECRET_KEY
Digest == <<"a", "b">>

\* the X-Omise-Signature headers that arrive: none, the digest in the
\* header format, another digest, and a value of another length
Signatures == {<<>>, <<"sha256=", "a", "b">>, <<"sha256=", "a", "c">>, <<"a">>}

\* String.prototype.replace(pattern, ''): the first occurrence is removed
RECURSIVE replaceFirst(_, _)
replaceFirst(str, tok) ==
    IF str = <<>> THEN <<>>
    ELSE IF Head(str) = tok THEN Tail(str)
    ELSE <<Head(str)>> \o replaceFirst(Tail(str), tok)

\* a verification that compares nothing
verifyAnything(signature) == "valid"

\* verifyOmiseSignature: crypto.timingSafeEqual throws a RangeError when
\* the two buffers differ in length
verifyOmiseSignature(signature) ==
    LET receivedSignature == replaceFirst(signature, "sha256=")
    IN  IF Len(receivedSignature) # Len(Digest) THEN "throws"
        ELSE IF receivedSignature = Digest THEN "valid" ELSE "invalid"

\* POST, up to the switch on the event key: what the request is answered
\* with before any handler runs, or "process"
WH_Verdict(signature) ==
    IF signature = <<>> THEN "process"
    ELSE CASE verifyOmiseSignature(signature) = "valid" -> "process"
           [] verifyOmiseSignature(signature) = "invalid" -> "Invalid signature"
           [] OTHER -> "Internal server error"

\* the request that POST answers with 401 or 500
WH_Rejected(signature) ==
    [Idle EXCEPT !.h = "webhook", !.pc = "whReject", !.sig = signature,
                 !.log = WH_Verdict(signature)]

\* --------------------------------------------------------- charge.create
\* what the handler does with the order it found: an update only if the
\* order it read has no charge reference (the QR reference comes with it)
AfterFindCreate(r, o) ==
    IF orders[o].omiseChargeId # NULL
    THEN Finish(r)
    ELSE Step(r, [r EXCEPT !.pc = "ccWrite", !.oid = o, !.sig = <<>>])

\* the event of a charge the gateway holds arrives
ChargeCreateArrives(r0, c) ==
    Begin([r0 EXCEPT !.h = "chargeCreate", !.pc = "ccFind", !.cid = c])

CC_Start ==
    \E c \in 1..Len(charges) :
        /\ ChargeCreateArrives(Idle, c)
        /\ UNCHANGED <<page, now, keyLogs, product, orders, items, keys, charges>>

\* findUnique by metadata.orderId and, when that finds nothing, findUnique
\* by omiseChargeId
CC_Find ==
    \E r \in Running :
        /\ r.pc = "ccFind"
        /\ LET byId == OrderById(charges[r.cid].orderId)
               o == IF byId # NULL THEN byId ELSE OrderByCharge(r.cid)
           IN  IF o = NULL THEN Finish(r) ELSE AfterFindCreate(r, o)
        /\ UNCHANGED <<page, now, keyLogs, product, orders, items, keys, charges>>

\* the webhook's update without its condition on omiseChargeId
CC_WriteUnconditional ==
    \E r \in Running :
        /\ r.pc = "ccWrite"
        /\ orders' = [orders EXCEPT ![r.oid] =
                         IF @.exists
                         THEN [@ EXCEPT !.omiseChargeId = r.cid, !.qrCodeUrl = TRUE]
                         ELSE @]
        /\ Finish(r)
        /\ UNCHANGED <<page, now, keyLogs, product, items, keys, charges>>

\* updateMany({where: {id, omiseChargeId: null}})
CC_Write ==
    \E r \in Running :
        /\ r.pc = "ccWrite"
        /\ orders' = [orders EXCEPT ![r.oid] =
                         IF @.exists /\ @.omiseChargeId = NULL
                         THEN [@ EXCEPT !.omiseChargeId = r.cid, !.qrCodeUrl = TRUE]
                         ELSE @]
        /\ Finish(r)
        /\ UNCHANGED <<page, now, keyLogs, product, items, keys, charges>>

\* ------------------------------------------------------ charge.complete
isSuccessful(paid, status, src) ==
    paid = TRUE /\ (status = "successful" \/ src = "successful")

isFailed(paid, status, src) ==
    paid # TRUE \/ status = "failed" \/ src = "failed"

\* a handler that does not look at the status it read
AfterFindPayAlways(r, o) ==
    IF o = NULL
    THEN UNCHANGED inflight
    ELSE Begin([r EXCEPT !.pc = "wcSetPaid", !.oid = o])

\* what the success and the unclear branch do with the order they found
AfterFindPay(r, o) ==
    IF o = NULL \/ orders[o].status = "paid"
    THEN UNCHANGED inflight
    ELSE Begin([r EXCEPT !.pc = "wcSetPaid", !.oid = o])

\* what the failure branch does with the order it found
AfterFindFail(r, o) ==
    IF o = NULL \/ orders[o].status # "pending"
    THEN UNCHANGED inflight
    ELSE Begin([r EXCEPT !.pc = "wcCancel", !.oid = o])

Payloads == [paid : BOOLEAN, status : {"successful", "failed", "pending"},
             src : {"successful", "failed", "none"}]

\* a charge.complete event arrives: classify the payload, findUnique by
\* omiseChargeId; the success and failure branches fall back to the order id
ChargeCompleteArrives(r0, c, ev) ==
    LET r == [r0 EXCEPT !.h = "chargeComplete", !.cid = c, !.paid = ev.paid,
                        !.status = ev.status, !.src = ev.src]
        o == OrderByCharge(c)
    IN  /\ BagCardinality(inflight) < MaxProcs
        /\ IF isSuccessful(ev.paid, ev.status, ev.src)
           THEN IF o = NULL
                THEN Begin([r EXCEPT !.pc = "wcFind2"])
                ELSE AfterFindPay(r, o)
           ELSE IF isFailed(ev.paid, ev.status, ev.src)
           THEN IF o = NULL
                THEN Begin([r EXCEPT !.pc = "wcFind2"])
                ELSE AfterFindFail(r, o)
           ELSE AfterFindPay(r, o)

WC_Find ==
    \E c \in 1..Len(charges), ev \in Payloads :
        /\ ChargeCompleteArrives(Idle, c, ev)
        /\ UNCHANGED <<page, now, keyLogs, product, orders, items, keys, charges>>

\* the fallback lookup by metadata.orderId
WC_Find2 ==
    \E r \in Running :
        /\ r.pc = "wcFind2"
        /\ LET o == OrderById(charges[r.cid].orderId)
               t == IF o = NULL THEN "none" ELSE orders[o].status
           IN  IF isSuccessful(r.paid, r.status, r.src)
               THEN IF o = NULL \/ t = "paid"
                    THEN Finish(r)
                    ELSE Step(r, [r EXCEPT !.pc = "wcSetPaid", !.oid = o, !.sig = <<>>])
               ELSE IF o = NULL \/ t # "pending"
                    THEN Finish(r)
                    ELSE Step(r, [r EXCEPT !.pc = "wcCancel", !.oid = o, !.sig = <<>>])
        /\ UNCHANGED <<page, now, keyLogs, product, orders, items, keys, charges>>

\* prisma.order.update: status 'paid', by id and without condition
WC_SetPaid ==
    \E r \in Running :
        /\ r.pc = "wcSetPaid"
        /\ IF orders[r.oid].exists
           THEN /\ orders' = [orders EXCEPT ![r.oid].status = "paid"]
                /\ Step(r, [Idle EXCEPT !.h = r.h, !.pc = "ffItems", !.oid = r.oid])
           ELSE /\ UNCHANGED orders
                /\ Finish(r)
        /\ UNCHANGED <<page, now, keyLogs, product, items, keys, charges>>

\* prisma.order.update: status 'cancelled', by id and without condition
WC_Cancel ==
    \E r \in Running :
        /\ r.pc = "wcCancel"
        /\ orders' = [orders EXCEPT ![r.oid] =
                         IF @.exists THEN [@ EXCEPT !.status = "cancelled"] ELSE @]
        /\ Finish(r)
        /\ UNCHANGED <<page, now, keyLogs, product, items, keys, charges>>

\* -------------------------------------------------------- charge.expire
ChargeExpireArrives(r0, c) ==
    LET o == OrderByCharge(c) IN
    /\ o # NULL
    /\ orders[o].status = "pending"
    /\ Begin([r0 EXCEPT !.h = "chargeExpire", !.pc = "ceCancel", !.cid = c, !.oid = o])

CE_Find ==
    \E c \in 1..Len(charges) :
        /\ ChargeExpireArrives(Idle, c)
        /\ UNCHANGED <<page, now, keyLogs, product, orders, items, keys, charges>>

CE_Cancel ==
    \E r \in Running :
        /\ r.pc = "ceCancel"
        /\ orders' = [orders EXCEPT ![r.oid] =
                         IF @.exists THEN [@ EXCEPT !.status = "cancelled"] ELSE @]
        /\ Finish(r)
        /\ UNCHANGED <<page, now, keyLogs, product, items, keys, charges>>

\* ----------------------------------------------------------------- POST
EventKeys == {"charge.create", "charge.complete", "charge.expire", "charge.update"}

\* POST of the webhook route: the signature header is checked, then the
\* event goes to its handler, which runs up to its first database call; the
\* request keeps the header it came with
WH_Post ==
    \E signature \in Signatures :
        /\ IF WH_Verdict(signature) # "process"
           THEN Begin(WH_Rejected(signature))
           ELSE LET r0 == [Idle EXCEPT !.sig = signature]
                IN  \E c \in 1..Len(charges), key \in EventKeys :
                       CASE key = "charge.create" -> ChargeCreateArrives(r0, c)
                         [] key = "charge.complete" ->
                                \E ev \in Payloads : ChargeCompleteArrives(r0, c, ev)
                         [] key = "charge.expire" -> ChargeExpireArrives(r0, c)
                         [] OTHER -> UNCHANGED inflight
        /\ UNCHANGED <<page, now, keyLogs, product, orders, items, keys, charges>>

\* the response of a rejected webhook request
WH_Reject ==
    \E r \in Running :
        /\ r.pc = "whReject"
        /\ Finish(r)
        /\ UNCHANGED <<page, now, keyLogs, product, orders, items, keys, charges>>

\* --------------------------------------------------- orders/[id]/cancel
\* the outcomes of cancelCharge: the gateway marks the charge as failed,
\* answers that the charge is already paid or cancelled (taken as success),
\* or the call throws
CancelOutcomes == {"cancelled", "already processed", "throws"}

\* session, prisma.order.findUnique and the three checks: a request without
\* session, for an order that does not exist, of another user or that is not
\* pending gets its error response and does nothing else
CA_Start ==
    \E o \in OrderIds, u \in Users \cup {NULL} :
        /\ LET r == [Idle EXCEPT !.h = "cancel", !.pc = "caReject", !.oid = o, !.user = u]
               order == orders[o]
           IN  IF u = NULL THEN Begin([r EXCEPT !.log = "Unauthorized"])
               ELSE IF ~order.exists THEN Begin([r EXCEPT !.log = "Order not found"])
               ELSE IF order.userId # u THEN Begin([r EXCEPT !.log = "Unauthorized"])
               ELSE IF order.status # "pending"
               THEN Begin([r EXCEPT !.log = "Only pending orders can be cancelled"])
               ELSE IF order.omiseChargeId # NULL
               THEN Begin([r EXCEPT !.pc = "caCancel", !.cid = order.omiseChargeId])
               ELSE Begin([r EXCEPT !.pc = "caWrite"])
        /\ UNCHANGED <<page, now, keyLogs, product, orders, items, keys, charges>>

\* the error response of a rejected request
CA_Reject ==
    \E r \in Running :
        /\ r.pc = "caReject"
        /\ Finish(r)
        /\ UNCHANGED <<page, now, keyLogs, product, orders, items, keys, charges>>

\* a cancel route that lets the throw of cancelCharge reach its outer catch
AfterCancelChargeRethrow(r, outcome) ==
    IF outcome = "throws"
    THEN [r EXCEPT !.pc = "caReject", !.cid = NULL, !.log = "Internal server error"]
    ELSE [r EXCEPT !.pc = "caWrite", !.cid = NULL, !.log = outcome]

\* where the request goes after cancelCharge: every outcome, a throw
\* included, is swallowed
AfterCancelCharge(r, outcome) == [r EXCEPT !.pc = "caWrite", !.cid = NULL, !.log = outcome]

\* cancelCharge(order.omiseChargeId) inside try/catch
CA_Cancel ==
    \E r \in Running, outcome \in CancelOutcomes :
        /\ r.pc = "caCancel"
        /\ Step(r, AfterCancelCharge(r, outcome))
        /\ UNCHANGED <<page, now, keyLogs, product, orders, items, keys, charges>>

\* prisma.order.update({where: {id}, data: {status: 'cancelled'}}), then the
\* success response
CA_Write ==
    \E r \in Running :
        /\ r.pc = "caWrite"
        /\ orders' = [orders EXCEPT ![r.oid] =
                         IF @.exists THEN [@ EXCEPT !.status = "cancelled"] ELSE @]
        /\ Finish(r)
        /\ UNCHANGED <<page, now, keyLogs, product, items, keys, charges>>

\* ------------------------------------------------------ payments/status
\* the owner's poll: read the order, ask the gateway, and go on only when
\* charge.paid === true and the status that was read is pending
PS_Start ==
    \E o \in OrderIds, chargePaid \in BOOLEAN :
        /\ orders[o].exists
        /\ ~(orders[o].status = "paid" \/ orders[o].status = "completed")
        /\ orders[o].omiseChargeId # NULL
        /\ chargePaid = TRUE /\ orders[o].status = "pending"
        /\ Begin([Idle EXCEPT !.h = "status", !.pc = "psSetPaid", !.oid = o])
        /\ UNCHANGED <<page, now, keyLogs, product, orders, items, keys, charges>>

PS_SetPaid ==
    \E r \in Running :
        /\ r.pc = "psSetPaid"
        /\ IF orders[r.oid].exists
           THEN /\ orders' = [orders EXCEPT ![r.oid].status = "paid"]
                /\ Step(r, [Idle EXCEPT !.h = r.h, !.pc = "ffItems", !.oid = r.oid])
           ELSE /\ UNCHANGED orders
                /\ Finish(r)
        /\ UNCHANGED <<page, now, keyLogs, product, items, keys, charges>>

\* The same route step by step, with its responses.  A response record holds
\* the order status that was read (status), the status and the paid flag of
\* the response (log, paid) and where the charge object came from (src): the
\* gateway's answer, the catch's fallback, or its initial value.
ChargeAnswers == [paid : BOOLEAN, status : {"pending", "successful", "failed"}]

\* getChargeStatus throws when the request fails or is answered with an
\* error status
ChargeThrown == [paid |-> FALSE, status |-> "throws"]

GatewayOutcomes == ChargeAnswers \cup {ChargeThrown}

PS_Response(r, status, paid, src) ==
    [r EXCEPT !.pc = "psReturn", !.log = status, !.paid = paid, !.src = src]

\* getServerSession, prisma.order.findUnique({where: {id: orderId}}) and the
\* early returns; shouldCheckOmise is refresh || order.status === 'pending'
PS_Read ==
    \E o \in OrderIds, u \in Users \cup {NULL}, refresh \in BOOLEAN :
        LET r == [Idle EXCEPT !.h = "status", !.oid = o, !.user = u]
            order == orders[o]
            read == [r EXCEPT !.status = order.status]
        IN  /\ Begin(IF u = NULL
                     THEN PS_Response(r, "Unauthorized", FALSE, "none")
                     ELSE IF ~order.exists
                     THEN PS_Response(r, "Order not found", FALSE, "none")
                     ELSE IF order.userId # u
                     THEN PS_Response(r, "Unauthorized", FALSE, "none")
                     ELSE IF order.status = "paid" \/ order.status = "completed"
                     THEN PS_Response(read, "paid", TRUE, "database")
                     ELSE IF order.omiseChargeId = NULL
                     THEN PS_Response(read, order.status, FALSE, "database")
                     ELSE IF refresh \/ order.status = "pending"
                     THEN [read EXCEPT !.pc = "psCharge", !.cid = order.omiseChargeId]
                     ELSE PS_Response(read, order.status, FALSE, "initial"))
            /\ UNCHANGED <<page, now, keyLogs, product, orders, items, keys, charges>>

\* a throw of getChargeStatus leaves the route through the outer catch
AfterGetChargeStatusRethrow(r, outcome) ==
    IF outcome = ChargeThrown
    THEN PS_Response([r EXCEPT !.cid = NULL, !.status = "none"],
                     "Internal server error", FALSE, "none")
    ELSE IF outcome.paid /\ r.status = "pending"
    THEN [Idle EXCEPT !.h = r.h, !.pc = "psSetPaid", !.oid = r.oid]
    ELSE PS_Response([r EXCEPT !.cid = NULL],
                     IF outcome.paid \/ outcome.status = "successful" THEN "paid" ELSE r.status,
                     outcome.paid \/ outcome.status = "successful", "gateway")

\* where the poll goes after getChargeStatus: the catch replaces the charge
\* by {paid: false, status: order.status}; the status write follows only
\* charge.paid === true with the order read as pending; otherwise the
\* response is built from isPaid and finalStatus
AfterGetChargeStatus(r, outcome) ==
    LET charge == IF outcome = ChargeThrown
                  THEN [paid |-> FALSE, status |-> r.status]
                  ELSE outcome
        isPaid == charge.paid \/ charge.status = "successful"
    IN  IF charge.paid /\ r.status = "pending"
        THEN [Idle EXCEPT !.h = r.h, !.pc = "psSetPaid", !.oid = r.oid]
        ELSE PS_Response([r EXCEPT !.cid = NULL],
                         IF isPaid THEN "paid" ELSE r.status, isPaid,
                         IF outcome = ChargeThrown THEN "fallback" ELSE "gateway")

\* getChargeStatus(order.omiseChargeId) inside try/catch
PS_Charge ==
    \E r \in Running, outcome \in GatewayOutcomes :
        /\ r.pc = "psCharge"
        /\ Step(r, AfterGetChargeStatus(r, outcome))
        /\ UNCHANGED <<page, now, keyLogs, product, orders, items, keys, charges>>

\* NextResponse.json({status, paid, ...}) or an error response
PS_Return ==
    \E r \in Running :
        /\ r.pc = "psReturn"
        /\ Finish(r)
        /\ UNCHANGED <<page, now, keyLogs, product, orders, items, keys, charges>>

\* ------------------------------------------------------------ fulfilment
\* (the same loop follows the status write in the webhook's success branch,
\* in its unclear branch and in the status poll)
\* the Key row of createMany: not activated, placeholder expiration, the
\* schema defaults for the rest
NewKey(c, o, it) ==
    [key |-> c, orderItemId |-> o, expireDays |-> it.expireDays,
     purchaseDate |-> now, expireDate |-> now + HundredYears,
     activateDate |-> NULL, hwid |-> NULL, isActive |-> TRUE]

\* prisma.orderItem.findMany({where: {orderId}}), then the branch on the type
FF_Items ==
    \E r \in Running :
        /\ r.pc = "ffItems"
        /\ IF ~items[r.oid].exists
           THEN Finish(r)
           ELSE Step(r, [r EXCEPT !.item = items[r.oid],
                                  !.pc = IF items[r.oid].ptype = "key"
                                         THEN "ffExisting" ELSE "ffStock"])
        /\ UNCHANGED <<page, now, keyLogs, product, orders, items, keys, charges>>

\* prisma.key.findMany({where: {orderItemId}}): generate only if none exist
FF_Existing ==
    \E r \in Running :
        /\ r.pc = "ffExisting"
        /\ IF KeysOfItem(r.oid) = {}
           THEN Step(r, [r EXCEPT !.pc = "ffDraw", !.i = 0, !.gen = <<>>])
           ELSE Finish(r)
        /\ UNCHANGED <<page, now, keyLogs, product, orders, items, keys, charges>>

\* One iteration of the for loop: the first generateKey() draw and up to ten
\* retries, each followed by findUnique.  Key rows are never deleted, so a
\* lookup that found its code taken would find it again at the time of the
\* iteration's last lookup: the iteration is one step, taken at that time.
\* It ends with a code that is unused at that time, or, when every draw hit
\* a used code, without a key for this iteration (the `continue`).
FF_Draw ==
    \E r \in Running :
        /\ r.pc = "ffDraw"
        /\ \E c \in Codes \cup {NULL} :
            /\ c = NULL => \E x \in Codes : KeyExists(x)
            /\ c # NULL => ~KeyExists(c)
            /\ LET g == IF c = NULL THEN r.gen ELSE Append(r.gen, c)
                   last == r.i + 1 = r.item.quantity
               IN  IF ~last THEN Step(r, [r EXCEPT !.i = @ + 1, !.gen = g])
                   ELSE IF g = <<>> THEN Finish(r)
                   ELSE Step(r, [r EXCEPT !.i = 0, !.gen = g, !.pc = "ffCreate"])
        /\ UNCHANGED <<page, now, keyLogs, product, orders, items, keys, charges>>

Range(f) == {f[x] : x \in DOMAIN f}

\* prisma.key.createMany: the unique index on the code rejects the batch
FF_Create ==
    \E r \in Running :
        /\ r.pc = "ffCreate"
        /\ IF (\E x \in Range(r.gen) : KeyExists(x)) \/ Cardinality(Range(r.gen)) # Len(r.gen)
           THEN /\ UNCHANGED keys
                /\ Finish(r)
           ELSE /\ keys' = keys \cup {NewKey(x, r.oid, r.item) : x \in Range(r.gen)}
                /\ IF r.item.code = NULL
                   THEN Step(r, [Idle EXCEPT !.h = r.h, !.pc = "ffCode", !.oid = r.oid,
                                             !.gen = <<r.gen[1]>>])
                   ELSE Finish(r)
        /\ UNCHANGED <<page, now, keyLogs, product, orders, items, charges>>

\* prisma.orderItem.update: the legacy code field gets the first key
FF_Code ==
    \E r \in Running :
        /\ r.pc = "ffCode"
        /\ items' = [items EXCEPT ![r.oid].code = r.gen[1]]
        /\ Finish(r)
        /\ UNCHANGED <<page, now, keyLogs, product, orders, keys, charges>>

\* a write of the stock computed from the stock the order was placed against
FF_StockStale ==
    \E r \in Running :
        /\ r.pc = "ffStock"
        /\ product' = [product EXCEPT !.stock = MaxStock - r.item.quantity]
        /\ Finish(r)
        /\ UNCHANGED <<page, now, keyLogs, orders, items, keys, charges>>

\* prisma.product.update: stock: {decrement: quantity}
FF_Stock ==
    \E r \in Running :
        /\ r.pc = "ffStock"
        /\ product' = [product EXCEPT !.stock = @ - r.item.quantity]
        /\ Finish(r)
        /\ UNCHANGED <<page, now, keyLogs, orders, items, keys, charges>>

\* --------------------------------------------------------- keys/generate
\* the admin's request; quantity is any integer from 1 (z.number().int().min(1))
Quantities == 1..MaxQty

KG_Response(r, msg) ==
    [Idle EXCEPT !.h = r.h, !.pc = "kgReturn", !.oid = r.oid, !.log = msg]

\* getServerSession with the role check, generateKeySchema.parse, then
\* prisma.order.findUnique({where: {id: orderId}})
KG_Start ==
    \E o \in DOMAIN orders, quantity \in Quantities, admin \in BOOLEAN :
        LET r == [Idle EXCEPT !.h = "generate", !.oid = o, !.amt = quantity]
        IN  /\ Begin(IF ~admin THEN KG_Response(r, "Unauthorized")
                     ELSE IF ~orders[o].exists THEN KG_Response(r, "Order not found")
                     ELSE [r EXCEPT !.pc = "kgItems"])
            /\ UNCHANGED <<page, now, keyLogs, product, orders, items, keys, charges>>

\* prisma.orderItem.findMany({where: {orderId}}), the item by its id, the
\* product type of the item
KG_Items ==
    \E r \in Running :
        /\ r.pc = "kgItems"
        /\ Step(r, IF ~items[r.oid].exists THEN KG_Response(r, "Order item not found")
                   ELSE IF items[r.oid].ptype # "key"
                   THEN KG_Response(r, "Product is not a key type")
                   ELSE [r EXCEPT !.pc = "kgDraw", !.item = items[r.oid], !.i = 0,
                                  !.gen = <<>>])
        /\ UNCHANGED <<page, now, keyLogs, product, orders, items, keys, charges>>

\* One iteration of the for loop up to its create: the first generateKey()
\* draw and up to ten retries, each followed by findUnique (one step, taken
\* at the time of the last lookup, as in the fulfilment loop).  When every
\* draw hit a used code the handler throws and answers 500.
KG_Draw ==
    \E r \in Running :
        /\ r.pc = "kgDraw"
        /\ \E c \in Codes \cup {NULL} :
            /\ c = NULL => \E x \in Codes : KeyExists(x)
            /\ c # NULL => ~KeyExists(c)
            /\ Step(r, IF c = NULL THEN KG_Response(r, "Internal server error")
                       ELSE [r EXCEPT !.pc = "kgCreate", !.key = c])
        /\ UNCHANGED <<page, now, keyLogs, product, orders, items, keys, charges>>

\* prisma.key.create; the unique index on the code makes it throw when the
\* code was taken since the lookup
KG_Create ==
    \E r \in Running :
        /\ r.pc = "kgCreate"
        /\ IF KeyExists(r.key)
           THEN /\ UNCHANGED keys
                /\ Step(r, KG_Response(r, "Internal server error"))
           ELSE /\ keys' = keys \cup {NewKey(r.key, r.oid, r.item)}
                /\ Step(r, [r EXCEPT !.key = NULL, !.i = @ + 1, !.gen = Append(@, r.key),
                                     !.pc = IF r.i + 1 = r.amt THEN "kgExisting"
                                            ELSE "kgDraw"])
        /\ UNCHANGED <<page, now, keyLogs, product, orders, items, charges>>

\* prisma.key.findMany({where: {orderItemId}}): the legacy code field is
\* written when the item has no other keys and no code
KG_Existing ==
    \E r \in Running :
        /\ r.pc = "kgExisting"
        /\ Step(r, IF /\ Len(r.gen) > 0
                      /\ Cardinality(KeysOfItem(r.oid)) = Len(r.gen)
                      /\ r.item.code = NULL
                   THEN [Idle EXCEPT !.h = r.h, !.pc = "kgCode", !.oid = r.oid,
                                     !.gen = <<r.gen[1]>>]
                   ELSE KG_Response(r, "success"))
        /\ UNCHANGED <<page, now, keyLogs, product, orders, items, keys, charges>>

\* prisma.orderItem.update({data: {code: keys[0].key}})
KG_Code ==
    \E r \in Running :
        /\ r.pc = "kgCode"
        /\ items' = [items EXCEPT ![r.oid].code = r.gen[1]]
        /\ Step(r, KG_Response(r, "success"))
        /\ UNCHANGED <<page, now, keyLogs, product, orders, keys, charges>>

\* the response: the created keys, or an error
KG_Return ==
    \E r \in Running :
        /\ r.pc = "kgReturn"
        /\ Finish(r)
        /\ UNCHANGED <<page, now, keyLogs, product, orders, items, keys, charges>>

\* ----------------------------------------------------------- keys/verify
Hwids == {1, 2}

Verifying == Copies({r \in Running : r.h = "verify"})

\* a handler that checks the expiration before the isActive flag
KeyFailureExpiredFirst(keyRecord) ==
    IF keyRecord.activateDate # NULL /\ keyRecord.expireDate < now THEN "Key has expired"
    ELSE IF ~keyRecord.isActive THEN "Key is inactive"
    ELSE "none"

\* the two checks on the key that was found: the isActive flag, then the
\* expiration, which is looked at only when the key has been activated
KeyFailure(keyRecord) ==
    IF ~keyRecord.isActive THEN "Key is inactive"
    ELSE IF keyRecord.activateDate # NULL /\ keyRecord.expireDate < now THEN "Key has expired"
    ELSE "none"

\* The request arrives with a key code (taken as already upper-cased and
\* trimmed) and an optional hwid.  findUnique by the code, then every check
\* up to the first write: not found, inactive, expired, or the updateData of
\* a successful verification.  A policy that does not parse makes
\* calculateExpireDate throw: the request ends with status 500.  A request
\* without key (NULL) fails the schema and ends with status 400.
V_Find ==
    \E c \in Codes \cup {NULL}, h \in Hwids \cup {NULL} :
        /\ Len(keyLogs) + Verifying < MaxVerifies
        /\ LET r == [Idle EXCEPT !.h = "verify", !.key = c, !.hwid = h, !.pc = "vLog"]
           IN  IF c = NULL
               THEN Begin([r EXCEPT !.pc = "vReturn", !.log = "Invalid request data"])
               ELSE IF ~KeyExists(c)
               THEN Begin([r EXCEPT !.key = NULL, !.log = "Key not found"])
               ELSE LET keyRecord == CHOOSE k \in keys : k.key = c
                        isFirstActivation == keyRecord.activateDate = NULL
                        expire == calculateExpireDate(keyRecord.expireDays, now)
                    IN  IF KeyFailure(keyRecord) # "none"
                        THEN Begin([r EXCEPT !.log = KeyFailure(keyRecord)])
                        ELSE IF isFirstActivation /\ expire.threw
                        THEN Begin([r EXCEPT !.pc = "vReturn", !.log = "Internal server error"])
                        ELSE IF isFirstActivation
                        THEN Begin([r EXCEPT !.pc = "vUpdate", !.log = "Key activated successfully",
                                             !.upd = [first |-> TRUE, activateDate |-> now,
                                                      expireDate |-> expire.date]])
                        ELSE IF h # NULL
                        THEN Begin([r EXCEPT !.pc = "vUpdate", !.log = "Key verified successfully"])
                        ELSE Begin([r EXCEPT !.log = "Key verified successfully"])
        /\ UNCHANGED <<page, product, orders, items, keys, charges, now, keyLogs>>

\* an update that writes the dates and drops the hwid
ApplyUpdateNoHwid(k, r) ==
    [k EXCEPT !.activateDate = IF r.upd.first THEN r.upd.activateDate ELSE @,
              !.expireDate = IF r.upd.first THEN r.upd.expireDate ELSE @]

\* prisma.key.update({where: {id}, data: updateData})
ApplyUpdate(k, r) ==
    [k EXCEPT !.activateDate = IF r.upd.first THEN r.upd.activateDate ELSE @,
              !.expireDate = IF r.upd.first THEN r.upd.expireDate ELSE @,
              !.hwid = IF r.hwid # NULL THEN r.hwid ELSE @]

V_Update ==
    \E r \in Running :
        /\ r.pc = "vUpdate"
        /\ keys' = {IF k.key = r.key THEN ApplyUpdate(k, r) ELSE k : k \in keys}
        /\ Step(r, [r EXCEPT !.pc = "vLog", !.upd = NoUpd])
        /\ UNCHANGED <<page, product, orders, items, charges, now, keyLogs>>

\* prisma.keyLog.create, the one log entry of the request
V_Log ==
    \E r \in Running :
        /\ r.pc = "vLog"
        /\ LET ok == r.log \in {"Key activated successfully", "Key verified successfully"}
           IN  keyLogs' = Append(keyLogs,
                  [keyId |-> r.key, hwid |-> IF ok THEN r.hwid ELSE NULL, message |-> r.log,
                   action |-> IF r.log = "Key activated successfully" THEN "activate"
                              ELSE "verify",
                   success |-> ok])
        /\ Finish(r)
        /\ UNCHANGED <<page, product, orders, items, keys, charges, now>>

\* the response of the outer catch: ZodError or any other exception
V_Return ==
    \E r \in Running :
        /\ r.pc = "vReturn"
        /\ Finish(r)
        /\ UNCHANGED <<page, product, orders, items, keys, charges, now, keyLogs>>

\* time passes
Tick ==
    /\ now < MaxTime
    /\ now' = now + 1
    /\ UNCHANGED <<page, product, orders, items, keys, charges, inflight, keyLogs>>

\* ----------------------------------------------------------- payment page
\* The browser clock counts polling intervals (10 s each); the n-th call of
\* startPolling creates the interval timer n and the timeout timer n.
TimerIds == 1..MaxStarts

\* pollingIntervalRef.current and pollingTimeoutRef.current (0 for null), the
\* armed timers, the clock reading and the pollCount of each startPolling
\* call, and the interval callbacks that await a fetch
NoPage ==
    [clock |-> 0, starts |-> 0, intervalRef |-> 0, timeoutRef |-> 0,
     intervals |-> {}, timeouts |-> {},
     startedAt |-> [n \in TimerIds |-> 0],
     pollCount |-> [n \in TimerIds |-> 0],
     calls |-> EmptyBag]

server == <<product, orders, items, keys, charges, inflight, now, keyLogs>>

\* clearing a timer that is not armed, or null, does nothing
clearInterval(p, id) == [p EXCEPT !.intervals = @ \ {id}]

clearTimeout(p, id) == [p EXCEPT !.timeouts = @ \ {id}]

\* both timers cleared and both refs set to null
stopPolling(p) ==
    [clearTimeout(clearInterval(p, p.intervalRef), p.timeoutRef)
        EXCEPT !.intervalRef = 0, !.timeoutRef = 0]

\* startPolling: clear what the refs hold, then setInterval and setTimeout
startPolling(p) ==
    LET n == p.starts + 1
        q == clearTimeout(clearInterval(p, p.intervalRef), p.timeoutRef)
    IN  [q EXCEPT !.starts = n, !.intervalRef = n, !.timeoutRef = n,
                  !.intervals = @ \cup {n}, !.timeouts = @ \cup {n},
                  !.startedAt[n] = p.clock, !.pollCount[n] = 0]

\* the mount effect or initializePayment calls startPolling
PP_StartPolling ==
    /\ page.starts < MaxStarts
    /\ page.clock + PollWindow <= MaxClock
    /\ page' = startPolling(page)
    /\ UNCHANGED server

IntervalDue(p, n) ==
    n \in p.intervals /\ p.clock >= p.startedAt[n] + p.pollCount[n] + 1

TimeoutDue(p, n) == n \in p.timeouts /\ p.clock >= p.startedAt[n] + PollWindow

\* the interval callback: pollCount++, fetch(/api/payments/status)
PP_Interval ==
    \E n \in TimerIds :
        /\ IntervalDue(page, n)
        /\ BagCardinality(page.calls) < MaxCalls
        /\ page' = [page EXCEPT !.pollCount[n] = @ + 1,
                                !.calls = @ (+) SetToBag({[timer |-> n, pc |-> "fetch"]})]
        /\ UNCHANGED server

\* the fields of a status response the page reads; "none" for a field the
\* response does not have
StatusData == [paid : BOOLEAN,
               status : {"none", "pending", "paid", "cancelled", "failed", "expired"},
               orderStatus : {"none", "pending", "paid", "cancelled"}]

\* the branches after response.json(): cancelled, paid, failed, none of them
AfterStatusResponse(p, data, orderStatus) ==
    IF data.orderStatus = "cancelled" \/ orderStatus = "cancelled"
    THEN stopPolling(p)
    ELSE IF \/ data.paid
            \/ data.status \in {"paid", "completed", "successful"}
            \/ data.orderStatus \in {"paid", "completed"}
    THEN stopPolling(p)
    ELSE IF data.status \in {"failed", "cancelled", "expired"}
    THEN clearInterval(p, p.intervalRef)
    ELSE p

\* the catch of the callback: a refresh request when pollCount, as it is by
\* now, is a multiple of 5
AfterStatusError(p, c) ==
    LET rest == [p EXCEPT !.calls = @ (-) SetToBag({c})]
    IN  IF p.pollCount[c.timer] >= 5 /\ p.pollCount[c.timer] % 5 = 0
        THEN [rest EXCEPT !.calls = @ (+) SetToBag({[c EXCEPT !.pc = "refresh"]})]
        ELSE rest

\* the status request of a callback is answered, or fails
PP_Response ==
    \E c \in BagToSet(page.calls) :
        /\ c.pc = "fetch"
        /\ \/ \E data \in StatusData, orderStatus \in {"pending", "cancelled"} :
                 page' = AfterStatusResponse([page EXCEPT !.calls = @ (-) SetToBag({c})],
                                             data, orderStatus)
           \/ page' = AfterStatusError(page, c)
        /\ UNCHANGED server

\* the refresh request of the catch: a paid answer clears the interval
AfterRefreshResponse(p, data) ==
    IF data.paid \/ data.status = "paid"
    THEN [clearInterval(p, p.intervalRef) EXCEPT !.intervalRef = 0]
    ELSE p

PP_RefreshResponse ==
    \E c \in BagToSet(page.calls) :
        /\ c.pc = "refresh"
        /\ LET rest == [page EXCEPT !.calls = @ (-) SetToBag({c})]
           IN  \/ \E data \in StatusData : page' = AfterRefreshResponse(rest, data)
               \/ page' = rest
        /\ UNCHANGED server

\* the timeout callback forgets to clear the interval
AfterTimeoutKeepsInterval(p, n) == [p EXCEPT !.timeouts = @ \ {n}]

\* the timeout callback, 10 minutes after startPolling: clearInterval of
\* what pollingIntervalRef holds
AfterTimeout(p, n) == clearInterval([p EXCEPT !.timeouts = @ \ {n}], p.intervalRef)

PP_Timeout ==
    \E n \in TimerIds :
        /\ TimeoutDue(page, n)
        /\ page' = AfterTimeout(page, n)
        /\ UNCHANGED server

\* the cleanup of the mount effect: both timers cleared, the refs kept
PP_Cleanup ==
    /\ page' = clearTimeout(clearInterval(page, page.intervalRef), page.timeoutRef)
    /\ UNCHANGED server

\* handleCancel: "Stop polling if active"
PP_HandleCancel ==
    /\ page' = stopPolling(page)
    /\ UNCHANGED server

\* the browser clock moves on when the timers that are due have fired
PP_Tick ==
    /\ page.clock < MaxClock
    /\ \A n \in TimerIds : ~IntervalDue(page, n) /\ ~TimeoutDue(page, n)
    /\ page' = [page EXCEPT !.clock = @ + 1]
    /\ UNCHANGED server

\* ------------------------------------------------------- specifications
\* The order-creation subsystem: orders/create, payments/create and the
\* charge.create webhook, from an empty store.
InitCreate ==
    /\ product \in [ptype : ProductTypes, stock : 0..MaxStock, price : Prices,
                     expireDays : {Policy("1D")}]
    /\ orders = [o \in OrderIds |-> NoOrder]
    /\ items = [o \in OrderIds |-> NoItem]
    /\ keys = {}
    /\ charges = <<>>
    /\ inflight = EmptyBag
    /\ now = 1
    /\ keyLogs = <<>>
    /\ page = NoPage

NextCreate ==
    \/ OC_Start \/ OC_Reject \/ OC_Insert \/ OC_Charge \/ OC_Delete \/ OC_Update
    \/ OC_FallbackRead \/ OC_FallbackWrite \/ OC_Item
    \/ PC_Start \/ PC_Reject \/ PC_Items \/ PC_Charge \/ PC_Find \/ PC_Write \/ PC_Reread
    \/ CC_Start \/ CC_Find \/ CC_Write

SpecCreate == InitCreate /\ [][NextCreate]_vars

\* payments/create on its own: the payment page of a pending order that
\* orders/create left without charge reference asks for the charge, more
\* than once at the same time.
InitPay ==
    /\ product = [ptype |-> "key", stock |-> 0, price |-> 20000,
                  expireDays |-> Policy("1D")]
    /\ items = [o \in OrderIds |->
                  [exists |-> TRUE, ptype |-> "key", quantity |-> 1, code |-> NULL,
                   expireDays |-> Policy("1D")]]
    /\ orders = [o \in OrderIds |->
                  [exists |-> TRUE, used |-> TRUE, userId |-> Owner, status |-> "pending",
                   omiseChargeId |-> NULL, qrCodeUrl |-> FALSE, totalAmount |-> 20000]]
    /\ charges = <<>>
    /\ keys = {}
    /\ inflight = EmptyBag
    /\ now = 1
    /\ keyLogs = <<>>
    /\ page = NoPage

NextPay ==
    \/ PC_Start \/ PC_Reject \/ PC_Items \/ PC_Charge \/ PC_Find \/ PC_Write \/ PC_Reread

SpecPay == InitPay /\ [][NextPay]_vars

\* Order creation next to the confirmation of its charge: the gateway may
\* send charge.complete as soon as the charge exists.
InitLate ==
    /\ InitCreate
    /\ product.price = 20000 /\ product.stock = MaxStock

NextLate ==
    \/ OC_Start \/ OC_Reject \/ OC_Insert \/ OC_Charge \/ OC_Delete \/ OC_Update
    \/ OC_FallbackRead \/ OC_FallbackWrite \/ OC_Item
    \/ WC_Find \/ WC_Find2 \/ WC_SetPaid \/ WC_Cancel
    \/ FF_Items \/ FF_Existing \/ FF_Draw \/ FF_Create \/ FF_Code \/ FF_Stock

SpecLate == InitLate /\ [][NextLate]_vars

\* The confirmation state machine.  It starts where orders/create leaves the
\* store: every order pending with its item and its gateway charge, the
\* charge reference stored or (when every update attempt of orders/create
\* failed) still missing.
Init ==
    /\ \E t \in ProductTypes, qs \in [OrderIds -> 1..MaxQty], stored \in BOOLEAN :
          /\ \A o \in OrderIds : t \notin {"key", "script"} => qs[o] <= MaxStock
          /\ product = [ptype |-> t, stock |-> MaxStock, price |-> 20000,
                        expireDays |-> Policy("1D")]
          /\ items = [o \in OrderIds |->
                        [exists |-> TRUE, ptype |-> t, quantity |-> qs[o], code |-> NULL,
                         expireDays |-> Policy("1D")]]
          /\ orders = [o \in OrderIds |->
                        [exists |-> TRUE, used |-> TRUE, userId |-> Owner, status |-> "pending",
                         omiseChargeId |-> IF stored THEN o ELSE NULL,
                         qrCodeUrl |-> stored, totalAmount |-> 20000 * qs[o]]]
          /\ charges = [o \in OrderIds |-> [orderId |-> o, amount |-> 2000 * qs[o]]]
    /\ keys = {}
    /\ inflight = EmptyBag
    /\ now = 1
    /\ keyLogs = <<>>
    /\ page = NoPage

Next ==
    \/ WC_Find \/ WC_Find2 \/ WC_SetPaid \/ WC_Cancel
    \/ CE_Find \/ CE_Cancel
    \/ CA_Start \/ CA_Reject \/ CA_Cancel \/ CA_Write
    \/ PS_Start \/ PS_SetPaid
    \/ FF_Items \/ FF_Existing \/ FF_Draw \/ FF_Create \/ FF_Code \/ FF_Stock

Spec == Init /\ [][Next]_vars

\* Sequential delivery of charge.complete events: the gateway sends an event
\* when the handler of the one before has returned.
WC_Deliver == inflight = EmptyBag /\ WC_Find

NextSequential ==
    \/ WC_Deliver \/ WC_Find2 \/ WC_SetPaid \/ WC_Cancel
    \/ FF_Items \/ FF_Existing \/ FF_Draw \/ FF_Create \/ FF_Code \/ FF_Stock

SpecSequential == Init /\ [][NextSequential]_vars

\* Several orders for the same stock-tracked product, each confirmed by one
\* trigger, a successful charge.complete event or a poll that sees the charge
\* paid, the triggers of different orders running concurrently.
SeveralOrders == 1..(MaxOrders + 1)

InitSeveral ==
    /\ \E t \in ProductTypes \ {"key"}, qs \in [SeveralOrders -> 1..MaxQty] :
          /\ product = [ptype |-> t, stock |-> MaxStock, price |-> 20000,
                        expireDays |-> Policy("1D")]
          /\ items = [o \in SeveralOrders |->
                        [exists |-> TRUE, ptype |-> t, quantity |-> qs[o], code |-> NULL,
                         expireDays |-> Policy("1D")]]
          /\ orders = [o \in SeveralOrders |->
                        [exists |-> TRUE, used |-> TRUE, userId |-> Owner, status |-> "pending",
                         omiseChargeId |-> o, qrCodeUrl |-> TRUE,
                         totalAmount |-> 20000 * qs[o]]]
          /\ charges = [o \in SeveralOrders |-> [orderId |-> o, amount |-> 2000 * qs[o]]]
    /\ keys = {}
    /\ inflight = EmptyBag
    /\ now = 1
    /\ keyLogs = <<>>
    /\ page = NoPage

\* no trigger has confirmed order o or is confirming it
Untriggered(o) == orders[o].status = "pending" /\ \A r \in Running : r.oid # o

WC_Once ==
    \E c \in 1..Len(charges), ev \in Payloads :
        /\ isSuccessful(ev.paid, ev.status, ev.src)
        /\ OrderByCharge(c) # NULL /\ Untriggered(OrderByCharge(c))
        /\ ChargeCompleteArrives(Idle, c, ev)
        /\ UNCHANGED <<page, now, keyLogs, product, orders, items, keys, charges>>

PS_Once ==
    \E o \in DOMAIN orders :
        /\ Untriggered(o)
        /\ orders[o].exists /\ orders[o].omiseChargeId # NULL
        /\ Begin([Idle EXCEPT !.h = "status", !.pc = "psSetPaid", !.oid = o])
        /\ UNCHANGED <<page, now, keyLogs, product, orders, items, keys, charges>>

NextSeveral ==
    \/ WC_Once \/ PS_Once \/ WC_SetPaid \/ PS_SetPaid \/ FF_Items \/ FF_Stock

SpecSeveral == InitSeveral /\ [][NextSeveral]_vars

\* Status polls, with their responses, next to cancel requests and poll
\* confirmations.
NextStatus ==
    \/ PS_Read \/ PS_Charge \/ PS_Return \/ PS_SetPaid
    \/ CA_Start \/ CA_Reject \/ CA_Cancel \/ CA_Write
    \/ FF_Items \/ FF_Existing \/ FF_Draw \/ FF_Create \/ FF_Code \/ FF_Stock

SpecStatus == Init /\ [][NextStatus]_vars

\* The webhook route with its signature check.  Every order is pending, for
\* one unit of a key-type or a stock-tracked product, and has a gateway
\* charge whose reference is stored or not.
InitWebhook ==
    /\ \E t \in {"key", "other"}, stored \in BOOLEAN :
          /\ product = [ptype |-> t, stock |-> MaxStock, price |-> 20000,
                        expireDays |-> Policy("1D")]
          /\ items = [o \in OrderIds |->
                        [exists |-> TRUE, ptype |-> t, quantity |-> 1, code |-> NULL,
                         expireDays |-> Policy("1D")]]
          /\ orders = [o \in OrderIds |->
                        [exists |-> TRUE, used |-> TRUE, userId |-> Owner, status |-> "pending",
                         omiseChargeId |-> IF stored THEN o ELSE NULL,
                         qrCodeUrl |-> stored, totalAmount |-> 20000]]
          /\ charges = [o \in OrderIds |-> [orderId |-> o, amount |-> 2000]]
    /\ keys = {}
    /\ inflight = EmptyBag
    /\ now = 1
    /\ keyLogs = <<>>
    /\ page = NoPage

NextWebhook ==
    \/ WH_Post \/ WH_Reject
    \/ CC_Find \/ CC_Write
    \/ WC_Find2 \/ WC_SetPaid \/ WC_Cancel
    \/ CE_Cancel
    \/ FF_Items \/ FF_Existing \/ FF_Draw \/ FF_Create \/ FF_Code \/ FF_Stock

SpecWebhook == InitWebhook /\ [][NextWebhook]_vars

\* The admin generate operation next to the confirmation and cancellation
\* triggers of the webhook, for pending orders of one unit.
NextAdmin ==
    \/ KG_Start \/ KG_Items \/ KG_Draw \/ KG_Create \/ KG_Existing \/ KG_Code \/ KG_Return
    \/ WC_Find \/ WC_Find2 \/ WC_SetPaid \/ WC_Cancel
    \/ FF_Items \/ FF_Existing \/ FF_Draw \/ FF_Create \/ FF_Code \/ FF_Stock

SpecAdmin == InitWebhook /\ [][NextAdmin]_vars

\* The payment page of a pending order with a charge.  Timers that are due
\* fire, the clock moves on and every request is answered or fails; when the
\* buyer acts is not constrained.
InitPolling ==
    /\ InitWebhook
    /\ product.ptype = "key"
    /\ \A o \in OrderIds : orders[o].omiseChargeId # NULL

NextPolling ==
    \/ PP_StartPolling \/ PP_Interval \/ PP_Response \/ PP_RefreshResponse
    \/ PP_Timeout \/ PP_Cleanup \/ PP_HandleCancel \/ PP_Tick

SpecPolling ==
    /\ InitPolling /\ [][NextPolling]_vars
    /\ WF_vars(PP_Tick) /\ WF_vars(PP_Interval) /\ WF_vars(PP_Timeout)
    /\ WF_vars(PP_Response) /\ WF_vars(PP_RefreshResponse)
\* The key verification API.  It starts after a paid order for one key of a
\* key product; the policy is the one of the product, any string an
\* administrator may have typed, and the key may have been deactivated.
Policies == {NoPolicy} \cup {Policy(str) : str \in {"", "Never", "0D", "1D", "2D", "D1", "-1D", "1D2", "week"}}

InitVerify ==
    /\ \E pol \in Policies, active \in BOOLEAN :
          LET it == [exists |-> TRUE, ptype |-> "key", quantity |-> 1, code |-> 1,
                     expireDays |-> pol]
          IN  /\ product = [ptype |-> "key", stock |-> 0, price |-> 20000, expireDays |-> pol]
              /\ items = [o \in OrderIds |-> IF o = 1 THEN it ELSE NoItem]
              /\ keys = {[key |-> 1, orderItemId |-> 1, expireDays |-> pol,
                          purchaseDate |-> 1, expireDate |-> 1 + HundredYears,
                          activateDate |-> NULL, hwid |-> NULL, isActive |-> active]}
    /\ orders = [o \in OrderIds |->
                    IF o = 1 THEN [exists |-> TRUE, used |-> TRUE, userId |-> Owner, status |-> "paid",
                                   omiseChargeId |-> 1, qrCodeUrl |-> TRUE,
                                   totalAmount |-> 20000]
                    ELSE NoOrder]
    /\ charges = <<[orderId |-> 1, amount |-> 2000]>>
    /\ inflight = EmptyBag
    /\ now = 1
    /\ keyLogs = <<>>
    /\ page = NoPage

NextVerify == V_Find \/ V_Update \/ V_Log \/ V_Return \/ Tick

SpecVerify == InitVerify /\ [][NextVerify]_vars

\* The same API for a key in any of its states: active or deactivated, never
\* activated or activated on day 1 with the expiration of its 1D policy.
InitVerifyAny ==
    /\ \E active \in BOOLEAN, activated \in BOOLEAN :
          LET pol == Policy("1D")
              it == [exists |-> TRUE, ptype |-> "key", quantity |-> 1, code |-> 1,
                     expireDays |-> pol]
          IN  /\ product = [ptype |-> "key", stock |-> 0, price |-> 20000, expireDays |-> pol]
              /\ items = [o \in OrderIds |-> IF o = 1 THEN it ELSE NoItem]
              /\ keys = {[key |-> 1, orderItemId |-> 1, expireDays |-> pol,
                          purchaseDate |-> 1,
                          expireDate |-> IF activated
                                         THEN calculateExpireDate(pol, 1).date
                                         ELSE 1 + HundredYears,
                          activateDate |-> IF activated THEN 1 ELSE NULL,
                          hwid |-> NULL, isActive |-> active]}
    /\ orders = [o \in OrderIds |->
                    IF o = 1 THEN [exists |-> TRUE, used |-> TRUE, userId |-> Owner, status |-> "paid",
                                   omiseChargeId |-> 1, qrCodeUrl |-> TRUE,
                                   totalAmount |-> 20000]
                    ELSE NoOrder]
    /\ charges = <<[orderId |-> 1, amount |-> 2000]>>
    /\ inflight = EmptyBag
    /\ now = 1
    /\ keyLogs = <<>>
    /\ page = NoPage

SpecVerifyAny == InitVerifyAny /\ [][NextVerify]_vars
\* The gateway adapter on its own: createPromptpayCharge called with amounts
\* around its two limits.
MaxCharges == 1     \* charges the gateway creates in this specification
AmountWindow == 15  \* how far around each limit the amounts go, in 0.001 baht

TestAmounts ==
    ((10 * MinSatang - AmountWindow)..(10 * MinSatang + AmountWindow))
        \cup ((10 * MaxSatang - AmountWindow)..(10 * MaxSatang + AmountWindow))

\* the call: conversion to satang and the two limit checks, which throw
\* before the request is built
CP_Call ==
    \E a \in TestAmounts :
        /\ Len(charges) + Copies({r \in Running : r.pc = "cpRequest"}) < MaxCharges
             \/ ChargeRejected(a)
        /\ Begin([Idle EXCEPT !.h = "createPromptpayCharge", !.amt = a,
                              !.pc = IF ChargeRejected(a) THEN "cpThrown" ELSE "cpRequest"])
        /\ UNCHANGED <<page, product, orders, items, keys, charges, now, keyLogs>>

\* fetch(POST /charges): the gateway receives the request
CP_Request ==
    \E r \in Running :
        /\ r.pc = "cpRequest"
        /\ charges' = Append(charges, [orderId |-> 1, amount |-> amountInSatang(r.amt)])
        /\ Finish(r)
        /\ UNCHANGED <<page, product, orders, items, keys, now, keyLogs>>

\* the Error reaches the caller
CP_Thrown ==
    \E r \in Running :
        /\ r.pc = "cpThrown"
        /\ Finish(r)
        /\ UNCHANGED <<page, product, orders, items, keys, charges, now, keyLogs>>

InitCharge ==
    /\ product = [ptype |-> "key", stock |-> 0, price |-> 20000, expireDays |-> Policy("1D")]
    /\ orders = [o \in OrderIds |->
                    IF o = 1 THEN [NoOrder EXCEPT !.exists = TRUE, !.used = TRUE, !.userId = Owner]
                    ELSE NoOrder]
    /\ items = [o \in OrderIds |-> NoItem]
    /\ keys = {}
    /\ charges = <<>>
    /\ inflight = EmptyBag
    /\ now = 1
    /\ keyLogs = <<>>
    /\ page = NoPage

NextCharge == CP_Call \/ CP_Request \/ CP_Thrown

SpecCharge == InitCharge /\ [][NextCharge]_vars

\* ================================================================ claims
RECURSIVE SumQuantity(_)
SumQuantity(S) == IF S = {} THEN 0
                  ELSE LET o == CHOOSE x \in S : TRUE
                       IN  items[o].quantity + SumQuantity(S \ {o})

\* the payload condition of a successful charge.complete, as the documentation
\* of the handler states it
PaidAndSuccessful(r) == r.paid = TRUE /\ (r.status = "successful" \/ r.src = "successful")

\* request r takes the step: one copy of it leaves its position
Takes(r) == CopiesIn(r, inflight') < CopiesIn(r, inflight)

\* C1: for every key-type order item, whatever confirmation triggers have run
\* and however their database steps interleaved, the item never has more Key
\* rows than its quantity.
C1_KeysNeverExceedQuantity ==
    \A o \in OrderIds :
        (items[o].exists /\ items[o].ptype = "key")
            => Cardinality(KeysOfItem(o)) <= items[o].quantity

\* C2: the stock of the product is decremented at most once for every order
\* with a stock-tracked item: it never falls below the initial stock minus
\* the quantities of the orders.
C2_StockDecrementedAtMostOnce ==
    product.ptype # "key" => product.stock >= MaxStock - SumQuantity(OrderIds)

\* C4: cancelled and completed are terminal: no step changes the status of an
\* order that is cancelled or completed.
C4_TerminalStatuses ==
    [][\A o \in OrderIds :
          orders[o].status \in {"cancelled", "completed"}
              => orders'[o].status = orders[o].status]_vars

\* C5: an order that is paid never becomes cancelled.
C5_PaidNeverCancelled ==
    [][\A o \in OrderIds :
          orders[o].status = "paid" => orders'[o].status # "cancelled"]_vars

\* C8: a charge.complete request changes an order's status to paid only if
\* its payload has paid === true and one of the two status fields is
\* 'successful'.
C8_PaidOnlyOnSuccess ==
    [][\A r \in Running :
          (r.h = "chargeComplete" /\ Takes(r)
             /\ \E o \in OrderIds : orders[o].status # "paid" /\ orders'[o].status = "paid")
              => PaidAndSuccessful(r)]_vars

\* C9: a charge.complete request whose payload is neither a clear success nor
\* a clear failure (no status field is 'failed') leaves the order's status,
\* the keys and the product stock unchanged.
C9_UnclearLeavesUnchanged ==
    [][\A r \in Running :
          (r.h = "chargeComplete" /\ Takes(r) /\ r.pc \in {"wcFind2", "wcSetPaid", "wcCancel"}
             /\ ~PaidAndSuccessful(r) /\ r.status # "failed" /\ r.src # "failed")
              => /\ \A o \in OrderIds : orders'[o].status = orders[o].status
                 /\ keys' = keys
                 /\ product' = product]_vars
\* C3: once an order's omiseChargeId is non-null, no step of any writer
\* (orders/create's update and its fallback, payments/create, the
\* charge.create webhook) changes it to a different value.
C3_ChargeReferenceMonotonic ==
    [][\A o \in OrderIds :
          (orders[o].exists /\ orders[o].omiseChargeId # NULL /\ orders'[o].exists)
              => orders'[o].omiseChargeId = orders[o].omiseChargeId]_vars

\* C3 witness: an order holds a charge reference while a writer that holds a
\* different charge for the same order is about to write.
C3_Witness ==
    \E o \in OrderIds, r \in Running :
        /\ orders[o].exists /\ orders[o].omiseChargeId # NULL
        /\ r.oid = o /\ r.pc \in {"pcWrite", "ccWrite", "ocUpdate", "ocFallbackWrite"}
        /\ r.cid # orders[o].omiseChargeId
\* the policies of the form "<N>D" and their N
DayPolicies == {Policy("0D"), Policy("1D"), Policy("2D")}
PolicyDays(pol) == DigitVal(pol[1])

KeyRow(c) == CHOOSE k \in keys : k.key = c
KeyRowAfter(c) == CHOOSE k \in keys' : k.key = c

\* a request that starts in this step
Begun(r) == /\ CopiesIn(r, inflight') = CopiesIn(r, inflight) + 1
            /\ BagCardinality(inflight') = BagCardinality(inflight) + 1

\* a verify request for an active key with an "<N>D" policy starts
VerifyBegins(r) ==
    /\ Begun(r) /\ r.h = "verify" /\ r.key # NULL
    /\ KeyRow(r.key).isActive /\ KeyRow(r.key).expireDays \in DayPolicies

\* the first verify of a never-activated key takes the time of the call as
\* activateDate and that time plus N days as expireDate, and its update
\* writes both
C6_FirstVerify ==
    /\ \A r \in BagToSet(inflight') :
          (VerifyBegins(r) /\ KeyRow(r.key).activateDate = NULL)
              => /\ r.pc = "vUpdate"
                 /\ r.upd = [first |-> TRUE, activateDate |-> now,
                             expireDate |-> now + PolicyDays(KeyRow(r.key).expireDays)]
    /\ \A r \in Running :
          (r.pc = "vUpdate" /\ Takes(r) /\ r.upd.first)
              => /\ KeyRowAfter(r.key).activateDate = r.upd.activateDate
                 /\ KeyRowAfter(r.key).expireDate = r.upd.expireDate

\* the update of a later verify leaves both dates and writes the hwid
C6_LaterUpdate ==
    \A r \in Running :
        (r.pc = "vUpdate" /\ Takes(r) /\ ~r.upd.first)
            => /\ KeyRowAfter(r.key).activateDate = KeyRow(r.key).activateDate
               /\ KeyRowAfter(r.key).expireDate = KeyRow(r.key).expireDate
               /\ KeyRowAfter(r.key).hwid = r.hwid

\* the second verify, with a hwid, starts when the first has finished
SecondVerifyBegins(r) ==
    /\ VerifyBegins(r) /\ r.hwid # NULL
    /\ KeyRow(r.key).activateDate # NULL
    /\ Verifying = 0

\* C6 as stated: the first verify of a never-activated active key with policy
\* "<N>D" sets activateDate to the time of the call and expireDate to that
\* time plus N days; every second verify that starts after the first has
\* finished leaves both unchanged and sets hwid to the supplied hwid.
C6_Original ==
    [][/\ C6_FirstVerify
       /\ C6_LaterUpdate
       /\ \A r \in BagToSet(inflight') :
             SecondVerifyBegins(r) => (r.pc = "vUpdate" /\ ~r.upd.first)]_vars

\* C6 amended: the same, for a second verify that starts no later than the
\* key's expireDate; one that starts later is rejected as expired and goes
\* on to its log entry without an update.
C6_FirstActivationWins ==
    [][/\ C6_FirstVerify
       /\ C6_LaterUpdate
       /\ \A r \in BagToSet(inflight') :
             SecondVerifyBegins(r) =>
                IF KeyRow(r.key).expireDate >= now
                THEN r.pc = "vUpdate" /\ ~r.upd.first
                ELSE r.pc = "vLog" /\ r.log = "Key has expired"]_vars

\* C6 witness: a key was activated by one verify and then verified by a
\* second one, which has bound its hwid; both have finished.
C6_Witness ==
    /\ Len(keyLogs) >= 2
    /\ keyLogs[1].action = "activate" /\ keyLogs[1].success
    /\ keyLogs[2].action = "verify" /\ keyLogs[2].success /\ keyLogs[2].hwid # NULL
    /\ keyLogs[1].hwid # keyLogs[2].hwid
    /\ inflight = EmptyBag
    /\ \E k \in keys :
          /\ k.key = keyLogs[2].keyId /\ k.hwid = keyLogs[2].hwid
          /\ k.expireDays \in DayPolicies
          /\ k.activateDate # NULL /\ now > k.activateDate
          /\ k.expireDate = k.activateDate + PolicyDays(k.expireDays)

\* C7: a key's activateDate, once non-null, never changes, and its expireDate
\* is written only by the step that sets activateDate, also when verify
\* requests for the same key run concurrently.
C7_ActivationImmutable ==
    [][\A k \in keys :
          /\ k.activateDate # NULL => KeyRowAfter(k.key).activateDate = k.activateDate
          /\ k.activateDate # NULL => KeyRowAfter(k.key).expireDate = k.expireDate]_vars

\* rounding to the nearest satang, halves upwards, stated without the code
SatangOf(a) == LET q == a \div 10 IN IF a - 10 * q >= 5 THEN q + 1 ELSE q

\* C10: createPromptpayCharge throws before any gateway request exactly when
\* the amount in satang is below 2000 or above 15000000, and sends every
\* other amount to the gateway.
C10_AmountLimits ==
    /\ \A r \in Running :
          r.h = "createPromptpayCharge" =>
              /\ r.pc = "cpThrown" <=> (SatangOf(r.amt) < 2000 \/ SatangOf(r.amt) > 15000000)
              /\ r.pc = "cpRequest" <=> (SatangOf(r.amt) >= 2000 /\ SatangOf(r.amt) <= 15000000)
    /\ \A i \in 1..Len(charges) : charges[i].amount >= 2000 /\ charges[i].amount <= 15000000

\* C10 witness: the gateway has received a charge of exactly 2000 satang
\* while a call with 1999 satang has thrown.
C10_Witness ==
    /\ \E i \in 1..Len(charges) : charges[i].amount = 2000
    /\ \E r \in Running : r.pc = "cpThrown" /\ SatangOf(r.amt) = 1999

\* a request leaves: it has returned its response
Returns(r) == Takes(r) /\ BagCardinality(inflight') < BagCardinality(inflight)

\* C11: a cancel request that reads the order as paid, completed or cancelled
\* is rejected with an error, calls no gateway cancel and writes nothing; a
\* cancel request changes an order's status to cancelled only when the order
\* is pending and owned by the caller.
C11_CancelOnlyPending ==
    [][/\ \A r \in BagToSet(inflight') :
             (Begun(r) /\ r.h = "cancel" /\ orders[r.oid].exists
                /\ orders[r.oid].status \in {"paid", "completed", "cancelled"})
                 => /\ r.pc = "caReject"
                    /\ r.log \in {"Unauthorized", "Only pending orders can be cancelled"}
       /\ \A r \in Running :
             (r.h = "cancel" /\ r.pc = "caReject" /\ Takes(r))
                 => /\ Returns(r)
                    /\ UNCHANGED <<orders, items, keys, product, charges>>
       /\ \A r \in Running :
             (r.h = "cancel" /\ Takes(r)
                /\ orders[r.oid].status # "cancelled" /\ orders'[r.oid].status = "cancelled")
                 => /\ orders[r.oid].status = "pending"
                    /\ orders[r.oid].userId = r.user]_vars

\* C18: a cancel request for an order that is pending and owned by the caller
\* is not rejected, goes on to its write after every outcome of the gateway
\* cancel call (success, already paid or cancelled, throw), and the order's
\* status is cancelled when the request returns.
C18_CancelAlwaysCancels ==
    [][/\ \A r \in BagToSet(inflight') :
             (Begun(r) /\ r.h = "cancel" /\ r.user # NULL /\ orders[r.oid].exists
                /\ orders[r.oid].status = "pending" /\ orders[r.oid].userId = r.user)
                 => r.pc \in {"caCancel", "caWrite"}
       /\ \A r \in Running :
             (r.h = "cancel" /\ r.pc = "caCancel" /\ Takes(r))
                 => \E r2 \in BagToSet(inflight') :
                       /\ r2.h = "cancel" /\ r2.pc = "caWrite" /\ r2.oid = r.oid
                       /\ CopiesIn(r2, inflight') = CopiesIn(r2, inflight) + 1
       /\ \A r \in Running :
             (r.h = "cancel" /\ r.pc # "caReject" /\ Returns(r))
                 => orders'[r.oid].status = "cancelled"]_vars

\* C18 witness: the gateway cancel call of a request has thrown, the request
\* is at its write, and a cancel request that returned earlier has left the
\* order cancelled.
C18_Witness ==
    \E r \in Running :
        /\ r.h = "cancel" /\ r.pc = "caWrite" /\ r.log = "throws"
        /\ orders[r.oid].status = "cancelled"

\* request r goes on as r2 in this step
GoesOn(r, r2) == Takes(r) /\ CopiesIn(r2, inflight') = CopiesIn(r2, inflight) + 1

\* C12: an order-creation request for a stock-tracked (non-key) product whose
\* stock is less than the requested quantity is rejected with 'Insufficient
\* stock' and creates no Order row, no OrderItem row and no gateway charge.
C12_InsufficientStockRejected ==
    [][/\ \A r \in BagToSet(inflight') :
             (Begun(r) /\ r.h = "ordersCreate" /\ product.ptype # "key"
                /\ product.stock < r.item.quantity)
                 => r.pc = "ocReject" /\ r.log = "Insufficient stock"
       /\ \A r \in Running :
             (r.h = "ordersCreate" /\ r.pc = "ocReject" /\ r.log = "Insufficient stock"
                /\ Takes(r))
                 => Returns(r) /\ UNCHANGED <<orders, items, charges>>]_vars

\* C13: when the charge creation of an order-creation request fails, the
\* request deletes its Order row and returns an error; and when any
\* order-creation request returns, the Order row it leaves behind has a
\* non-null charge reference.
C13_NoOrderWithoutCharge ==
    [][/\ \A r \in Running :
             (r.h = "ordersCreate" /\ r.pc = "ocCharge" /\ Takes(r) /\ charges' = charges)
                 => GoesOn(r, [r EXCEPT !.pc = "ocDelete"])
       /\ \A r \in Running :
             (r.h = "ordersCreate" /\ r.pc = "ocDelete" /\ Takes(r))
                 => /\ ~orders'[r.oid].exists
                    /\ GoesOn(r, [r EXCEPT !.pc = "ocReject", !.log = "Payment creation failed"])
       /\ \A r \in Running :
             (r.h = "ordersCreate" /\ Returns(r) /\ r.oid # NULL /\ orders'[r.oid].exists)
                 => orders'[r.oid].omiseChargeId # NULL]_vars

\* C16: payments/create never requests a gateway charge whose amount differs
\* from the order's stored totalAmount: a request whose amount differs from
\* the total is rejected at the amount checks, creates no charge and leaves
\* the order unchanged.
C16_ChargeMatchesTotal ==
    /\ [](\A i \in 1..Len(charges) :
             charges[i].amount = amountInSatang(orders[charges[i].orderId].totalAmount))
    /\ [][\A r \in Running :
             (r.h = "paymentsCreate" /\ r.pc = "pcItems" /\ Takes(r) /\ items[r.oid].exists
                /\ r.amt # orders[r.oid].totalAmount)
                 => /\ \E msg \in {"Amount mismatch", "Amount too low", "Amount too high"} :
                          GoesOn(r, PC_Response(msg))
                    /\ UNCHANGED <<orders, charges>>]_vars

C15_OneLogPerRequest ==
    [][/\ \A r \in Running :
             (r.h = "verify" /\ Takes(r))
                 => Len(keyLogs') = Len(keyLogs) + (IF Returns(r) THEN 1 ELSE 0)
       /\ Len(keyLogs') >= Len(keyLogs)
       /\ \A i \in 1..Len(keyLogs) : keyLogs'[i] = keyLogs[i]]_vars

\* the headers that carry the digest of the body, bare or in the header format
DigestHeaders == {Digest, <<"sha256=">> \o Digest}

WebhookHandlers == {"chargeCreate", "chargeComplete", "chargeExpire"}

C19_PollSurvivesGatewayFailure ==
    [][/\ \A r \in Running :
             (r.pc = "psCharge" /\ Takes(r))
                => /\ UNCHANGED <<orders, items, keys, product, charges>>
                   /\ \/ GoesOn(r, [Idle EXCEPT !.h = r.h, !.pc = "psSetPaid", !.oid = r.oid])
                      \/ \E r2 \in BagToSet(inflight') :
                            /\ GoesOn(r, r2) /\ r2.pc = "psReturn"
                            /\ r2.src \in {"fallback", "gateway"}
                            /\ r2.status = r.status
       /\ \A r \in Running :
             (r.pc = "psReturn" /\ r.src = "fallback" /\ Takes(r))
                => /\ Returns(r)
                   /\ r.log = r.status /\ r.paid = FALSE
                   /\ r.log \in {"pending", "cancelled"}
                   /\ UNCHANGED <<orders, items, keys, product, charges>>]_vars

\* C19 witness: a poll whose gateway call failed is answering 'cancelled',
\* paid = false, for an order that a cancel request cancelled meanwhile.
C19_Witness ==
    \E r \in Running :
        /\ r.h = "status" /\ r.pc = "psReturn" /\ r.src = "fallback"
        /\ r.log = "cancelled" /\ r.paid = FALSE
        /\ orders[r.oid].status = "cancelled"
PollingActive == page.intervals # {}

PollingQuiet == page.intervals = {} /\ page.calls = EmptyBag

\* C20: whenever the page has an armed polling interval, it later reaches a
\* state with no armed interval and no callback that could still send a
\* status request, whatever the responses are: paid, cancelled, failed or
\* expired, request errors, or nothing but pending until the window ends.
C20_PollingStops == PollingActive ~> PollingQuiet

\* C20 witness: polling has stopped because the window elapsed: the interval
\* fired in every interval of the window, then the timeout cleared it.
C20_Witness ==
    /\ PollingQuiet
    /\ page.intervalRef # 0 /\ page.timeouts = {}
    /\ page.pollCount[page.intervalRef] = PollWindow
    /\ page.clock = page.startedAt[page.intervalRef] + PollWindow
\* C21: when several orders for the same stock-tracked product are each
\* fulfilled once, by handlers that run concurrently, no decrement is lost:
\* the stock is the initial stock minus the quantities of the orders whose
\* decrement has been applied, and, once every order is fulfilled, the
\* initial stock minus the sum of all quantities.
C21_NoLostDecrement ==
    LET pending == {o \in DOMAIN orders :
                       orders[o].status = "pending" \/ \E r \in Running : r.oid = o}
    IN  product.stock = MaxStock - SumQuantity(DOMAIN orders \ pending)

\* C21 witness: every order is paid and fulfilled, no handler is left, and
\* the stock has lost the quantities of all of them, more than one order
\* alone could take.
C21_Witness ==
    /\ inflight = EmptyBag
    /\ \A o \in DOMAIN orders : orders[o].status = "paid"
    /\ Cardinality(DOMAIN orders) >= 2
    /\ product.stock = MaxStock - SumQuantity(DOMAIN orders)
    /\ product.stock < MaxStock - MaxQty
\* C22: key generation never ends successfully with fewer codes than the
\* requested quantity: the loop of a confirmation handler leaves its last
\* iteration with one code for every unit of the item, and the admin
\* generate operation reaches its success response only with as many keys as
\* its quantity argument.
C22_GenerationNeverShort ==
    [][\A r \in Running :
          /\ (r.pc = "ffDraw" /\ Takes(r) /\ r.i + 1 = r.item.quantity)
                => \E r2 \in BagToSet(inflight') :
                      /\ GoesOn(r, r2) /\ r2.pc = "ffCreate"
                      /\ Len(r2.gen) = r.item.quantity
          /\ (r.pc = "kgExisting" /\ Takes(r)) => Len(r.gen) = r.amt]_vars
VerifyFailures == {"Key not found", "Key is inactive", "Key has expired"}

ChargesOf(o) == {c \in 1..Len(charges) : charges[c].orderId = o}

C25_KeysBoundedByQuantity ==
    \A o \in DOMAIN items :
        items[o].exists => Cardinality(KeysOfItem(o)) <= items[o].quantity

\* C30: in every reachable state every Key row belongs to an order whose
\* status is paid or completed.
C30_KeysOnlyForPaidOrders ==
    \A k \in keys : orders[k.orderItemId].status \in {"paid", "completed"}

\* C26: in every reachable state the stock of the product is at least zero.
C26_StockNeverNegative == product.stock >= 0

ConfirmationHandlers == {"chargeComplete", "status"}

\* C27: whenever an order is paid and no confirmation handler is running,
\* every key-type item of the order has its keys, one for each unit.
C27_PaidOrdersHaveKeys ==
    \A o \in DOMAIN orders :
        (/\ orders[o].exists /\ orders[o].status = "paid"
         /\ \A r \in Running : r.h \notin ConfirmationHandlers
         /\ items[o].exists /\ items[o].ptype = "key")
            => Cardinality(KeysOfItem(o)) >= items[o].quantity

\* C28: in every reachable state the gateway holds at most one charge for
\* every order.
C28_OneChargePerOrder ==
    \A o \in DOMAIN orders : Cardinality(ChargesOf(o)) <= 1

\* C29: a status poll that answers paid (paid = true or status 'paid')
\* returns while the stored status of the order is paid or completed; a poll
\* of a cancelled order, with or without refresh, never answers paid.
C29_PaidAnswerMeansPaidOrder ==
    [][\A r \in Running :
          (/\ r.h = "status" /\ r.pc = "psReturn" /\ Returns(r)
           /\ (r.paid = TRUE \/ r.log = "paid"))
              => orders[r.oid].status \in {"paid", "completed"}]_vars
====
